---- MODULE Spec2Model ----
(***************************************************************************)
(* astrbot_plugin_histories_collector: the index lifecycle bootstrap       *)
(* (helper.py), the group-message handler and the recursive message-chain  *)
(* parser (main.py), against an Elasticsearch-like document store.         *)
(***************************************************************************)
EXTENDS Integers, Sequences, FiniteSets, TLC

(***************************************************************************)
(* Bounds of the model.                                                    *)
(***************************************************************************)
\* plugin starts (initialize calls) against the one store
MaxRuns == 2
\* the store holds indices {prefix}-00000n for n in 1..MaxIndex
MaxIndex == 2

\* message events delivered to on_group_message
MaxEvents == 2
\* elements of one message chain, at its top level
MaxLen == 2
\* the clock runs over the milliseconds 1..MaxClock
MaxClock == 2

Runs == 1..MaxRuns
IndexNames == 1..MaxIndex
Events == 1..MaxEvents

(***************************************************************************)
(* Names derived from the configuration (helper.py).                       *)
(***************************************************************************)
index_prefix == "qq-logs"
ilm_policy_name == <<index_prefix, "-policy">>
index_template_name == <<index_prefix, "-template">>
index_alias == "qq_messages"
\* f"{prefix}-000001": indices are named by their number
initial_index_name == 1

VARIABLES
    es,      \* the document store: policies, templates, indices, alias, documents
    run,     \* per plugin start: position in initialize and the calls it issued
    ev,      \* per message event: position in on_group_message, parse stack
    gen,     \* the SnowflakeGenerator of the plugin
    clock,   \* the wall clock, in milliseconds
    saves    \* the save_message calls made, in order

vars == <<es, run, ev, gen, clock, saves>>

(***************************************************************************)
(* The document store, as far as the plugin's calls observe and change it. *)
(***************************************************************************)
FreshStore ==
    [policies |-> {}, templates |-> {}, indices |-> {},
     aliases |-> {}, write |-> {}, docs |-> {}]

\* ilm.put_lifecycle(name, policy): create or update by name
put_lifecycle(s, name) == [s EXCEPT !.policies = @ \cup {name}]

\* indices.put_index_template(name, body): create or update by name
put_index_template(s, name) == [s EXCEPT !.templates = @ \cup {name}]

\* indices.get_alias(name): the indices the alias is bound to
get_alias(s) == s.aliases

\* indices.create(index, body) with aliases {alias: {is_write_index: True}}
indices_create(s, n) ==
    [s EXCEPT !.indices = @ \cup {n}, !.aliases = @ \cup {n}, !.write = @ \cup {n}]

\* The template binds the alias, without is_write_index, to every index
\* created under the pattern {prefix}-* once the template is installed.
template_create(s, n) ==
    [s EXCEPT !.indices = @ \cup {n},
              !.aliases = IF index_template_name \in s.templates
                          THEN @ \cup {n} ELSE @]

(***************************************************************************)
(* Message components.  A component has a type, the locators `file` and    *)
(* `url` ("none", a "local" path, or an "http" address) and, for the two   *)
(* containers, its groups of components: a Node has one group (its         *)
(* content), a Nodes has one group per node.                               *)
(***************************************************************************)
Comp(type, file, url, kids) == [type |-> type, file |-> file, url |-> url, kids |-> kids]
Leaf(type, file, url) == Comp(type, file, url, <<>>)
Node(content) == Comp("Node", "none", "none", <<content>>)
Nodes(groups) == Comp("Nodes", "none", "none", groups)

Plain == Leaf("Plain", "none", "none")
At == Leaf("At", "none", "none")
\* a component type outside the supported tuple
Face == Leaf("Face", "none", "none")
ImageHttp == Leaf("Image", "local", "http")
ImageLocal == Leaf("Image", "local", "local")
FileHttp == Leaf("File", "none", "http")
VideoHttp == Leaf("Video", "http", "none")
RecordHttp == Leaf("Record", "http", "http")

is_type_parseable(component) ==
    component.type \in {"File", "Video", "Record", "Image", "Node", "Nodes", "At",
                        "AtAll", "Reply", "Plain", "Share", "Contact", "Location",
                        "Music", "Json", "Forward"}

is_type_downloadable(component) ==
    component.type \in {"File", "Video", "Record", "Image"}

get_download_url_by_type(component) ==
    IF component.type = "Video" THEN component.file
    ELSE IF component.type \in {"File", "Image"} THEN component.url
    ELSE "none"

(***************************************************************************)
(* The size gate.  A probe is what the GET of the locator comes to: a      *)
(* network error, a timeout, or a response with a status and a             *)
(* content-length header (NoHeader when the header is absent).             *)
(***************************************************************************)
NoHeader == 0 - 1
SizeLimit == 50 * 1024 * 1024

Response(status, length) == [kind |-> "response", status |-> status, length |-> length]
Failure(kind) == [kind |-> kind, status |-> 0, length |-> NoHeader]

Probes ==
    {Failure("network"), Failure("timeout"), Response(404, NoHeader),
     Response(200, NoHeader), Response(200, SizeLimit), Response(200, SizeLimit + 1)}

Returned(v) == [raised |-> FALSE, val |-> v]
Raised(x) == [raised |-> TRUE, val |-> x]

get_http_content_length(probe) ==
    IF probe.kind # "response" THEN Raised(probe.kind)
    ELSE IF probe.status # 200 THEN Raised("status")
    ELSE Returned(IF probe.length = NoHeader THEN 0 ELSE probe.length)

\* f"size probe failed: {e}"
ProbeFailed(exc) ==
    IF exc = "network" THEN "size probe failed: network"
    ELSE IF exc = "timeout" THEN "size probe failed: timeout"
    ELSE "size probe failed: status"

\* (variant: files of exactly the limit are refused)
is_regular_file_limit(probe) ==
    LET total_size == get_http_content_length(probe) IN
    IF total_size.raised
    THEN Returned([is_regular |-> FALSE, check_result |-> ProbeFailed(total_size.val)])
    ELSE IF total_size.val >= SizeLimit
    THEN Returned([is_regular |-> FALSE, check_result |-> "file larger than 50MB"])
    ELSE Returned([is_regular |-> TRUE, check_result |-> "None"])

is_regular_file(probe) ==
    LET total_size == get_http_content_length(probe) IN
    IF total_size.raised
    THEN Returned([is_regular |-> FALSE, check_result |-> ProbeFailed(total_size.val)])
    ELSE IF total_size.val > SizeLimit
    THEN Returned([is_regular |-> FALSE, check_result |-> "file larger than 50MB"])
    ELSE Returned([is_regular |-> TRUE, check_result |-> "None"])

(***************************************************************************)
(* The parser, _parse_message_chain, as the stack of its activations.  A   *)
(* "chain" frame is one call: the chain, the loop position and `elements`; *)
(* a "nodes" frame is the loop over comp.nodes with element["messages"].   *)
(***************************************************************************)
Frame(tag, seq) == [tag |-> tag, seq |-> seq, i |-> 1, out |-> <<>>]

\* comp.to_dict(), with the warn field when there is a warning
to_dict(comp, warn) ==
    [type |-> comp.type, file |-> comp.file, url |-> comp.url,
     warn |-> warn, kids |-> <<>>]

NodeElement(content) ==
    [type |-> "Node", file |-> "none", url |-> "none", warn |-> "None",
     kids |-> <<content>>]

NodesElement(messages) ==
    [type |-> "Nodes", file |-> "none", url |-> "none", warn |-> "None",
     kids |-> messages]

\* (variant: the element is put in front of the list)
Emit_inFront(f, element) == [f EXCEPT !.out = <<element>> \o @, !.i = @ + 1]

\* elements.append(element), and on to the next component
Emit(f, element) == [f EXCEPT !.out = Append(@, element), !.i = @ + 1]

Pop(st) == SubSeq(st, 1, Len(st) - 1)

SetTop(st, f) == [st EXCEPT ![Len(st)] = f]

(***************************************************************************)
(* The identifier generator: SnowflakeGenerator(instance=0).               *)
(***************************************************************************)
MAX_SEQ == 2^12 - 1
\* next() returns None when the sequence of the millisecond is used up or
\* the clock is behind the generator
NoneId == 0 - 1

instance == 0

NewGenerator(now) == [ts |-> now, seq |-> 0]

\* ts << 22 | instance << 12 | seq
SnowflakeId(g) == g.ts * 2^22 + instance * 2^12 + g.seq

\* (variant: the sequence number is not advanced within a millisecond)
Snowflake_next_noSeq(g, current) ==
    IF g.ts > current THEN [gen |-> g, id |-> NoneId]
    ELSE LET n == [ts |-> current, seq |-> 0]
         IN  [gen |-> n, id |-> SnowflakeId(n)]

Snowflake_next(g, current) ==
    IF g.ts = current
    THEN IF g.seq = MAX_SEQ
         THEN [gen |-> g, id |-> NoneId]
         ELSE LET n == [g EXCEPT !.seq = @ + 1]
              IN  [gen |-> n, id |-> SnowflakeId(n)]
    ELSE IF g.ts > current
    THEN [gen |-> g, id |-> NoneId]
    ELSE LET n == [ts |-> current, seq |-> 0]
         IN  [gen |-> n, id |-> SnowflakeId(n)]

(***************************************************************************)
(* Message events.                                                         *)
(***************************************************************************)
Groups == {"1001", "2002"}
enable_groups == {"1001"}

is_enabled_group(group_id) == group_id \in enable_groups

\* no size gate has returned for the component at hand
NoGate ==
    [probe |-> Failure("none"),
     ret |-> Returned([is_regular |-> FALSE, check_result |-> "None"])]

NoResponse == Raised("none")

\* `probed` lists the components the size gate was invoked for, each with
\* the answer of the gate once it has returned; `resolved` lists the
\* components whose content resolution was attempted
NewEvent ==
    [pc |-> "new", group |-> "", chain |-> <<>>, stack |-> <<>>, gate |-> NoGate,
     out |-> <<>>, id |-> NoneId, resp |-> NoResponse, err |-> "None",
     probed |-> <<>>, resolved |-> <<>>]

Invoked(comp) == [comp |-> comp, ok |-> "pending"]

SeqsUpTo(S, n) == UNION {[1..k -> S] : k \in 0..n}

\* the chains the parser is run on
InnerChains ==
    {<<>>, <<Plain, At>>, <<Face, Plain>>, <<ImageHttp>>, <<Node(<<At>>)>>}

InnerGroups ==
    {<<>>, << <<Plain>>, <<At, Face>> >>, << <<FileHttp>> >>}

TopElements ==
    {Plain, At, Face, ImageHttp, ImageLocal, FileHttp, VideoHttp, RecordHttp}
        \cup {Node(c) : c \in InnerChains} \cup {Nodes(g) : g \in InnerGroups}

ParseChains == SeqsUpTo(TopElements, MaxLen)

\* the chains of the events delivered to the handler
EventChains == {<<Plain>>, <<Face, Node(<<ImageHttp>>)>>}

(***************************************************************************)
(* initialize and initial_required_indices, one step per store call.       *)
(***************************************************************************)
Call(op, ok) == [op |-> op, ok |-> ok]

IdleRun == [pc |-> "idle", calls |-> <<>>, helper |-> FALSE, afterOk |-> FALSE]

Issue(r, op, ok, pc) ==
    [run EXCEPT ![r].calls = Append(@, Call(op, ok)), ![r].pc = pc]

\* the host constructs the plugin and calls initialize()
Start(r) ==
    /\ run[r].pc = "idle"
    /\ run' = [run EXCEPT ![r].pc = "ping",
                          ![r].afterOk = \E q \in Runs : run[q].pc = "done"]
    /\ UNCHANGED <<es, ev, gen, clock, saves>>

\* if await es.ping(): helper = HistoriesHelper(...) else: close, raise
Ping(r) ==
    /\ run[r].pc = "ping"
    /\ \E ok \in BOOLEAN :
         run' = [Issue(r, "ping", ok, IF ok THEN "policy" ELSE "failed")
                     EXCEPT ![r].helper = ok]
    /\ UNCHANGED <<es, ev, gen, clock, saves>>

\* (variant: the failure of the policy put is logged and swallowed)
PutPolicy_swallowed(r) ==
    /\ run[r].pc = "policy"
    /\ \E ok \in BOOLEAN :
         /\ run' = Issue(r, "put_lifecycle", ok, "template")
         /\ es' = IF ok THEN put_lifecycle(es, ilm_policy_name) ELSE es
    /\ UNCHANGED <<ev, gen, clock, saves>>

\* step 1: the lifecycle policy; a failure is logged and re-raised
PutPolicy(r) ==
    /\ run[r].pc = "policy"
    /\ \E ok \in BOOLEAN :
         /\ run' = Issue(r, "put_lifecycle", ok, IF ok THEN "template" ELSE "failed")
         /\ es' = IF ok THEN put_lifecycle(es, ilm_policy_name) ELSE es
    /\ UNCHANGED <<ev, gen, clock, saves>>

\* step 2: the index template; a failure is logged and re-raised
PutTemplate(r) ==
    /\ run[r].pc = "template"
    /\ \E ok \in BOOLEAN :
         /\ run' = Issue(r, "put_index_template", ok, IF ok THEN "alias" ELSE "failed")
         /\ es' = IF ok THEN put_index_template(es, index_template_name) ELSE es
    /\ UNCHANGED <<ev, gen, clock, saves>>

\* (variant: the answer of the lookup is not looked at)
LookupAlias_ignored(r) ==
    /\ run[r].pc = "alias"
    /\ \E transient \in BOOLEAN :
         LET raised == transient \/ get_alias(es) = {}
         IN  run' = Issue(r, "get_alias", ~raised, "create")
    /\ UNCHANGED <<es, ev, gen, clock, saves>>

\* _ensure_write_index_exists, the lookup: a non-empty answer returns, an
\* exception (alias missing, or any transient error) is swallowed
LookupAlias(r) ==
    /\ run[r].pc = "alias"
    /\ \E transient \in BOOLEAN :
         LET raised == transient \/ get_alias(es) = {}
             alias_info == IF raised THEN {} ELSE get_alias(es)
         IN  run' = Issue(r, "get_alias", ~raised,
                          IF alias_info # {} THEN "done" ELSE "create")
    /\ UNCHANGED <<es, ev, gen, clock, saves>>

\* (variant: the first index is named after the start that creates it)
CreateInitialIndex_perRun(r) ==
    /\ run[r].pc = "create"
    /\ \E transient \in BOOLEAN :
         LET ok == ~transient /\ r \notin es.indices
         IN  /\ run' = Issue(r, "indices_create", ok, IF ok THEN "done" ELSE "failed")
             /\ es' = IF ok THEN indices_create(es, r) ELSE es
    /\ UNCHANGED <<ev, gen, clock, saves>>

\* (variant: a refused creation is logged and the start goes on)
CreateInitialIndex_swallowed(r) ==
    /\ run[r].pc = "create"
    /\ \E transient \in BOOLEAN :
         LET ok == ~transient /\ initial_index_name \notin es.indices
         IN  /\ run' = Issue(r, "indices_create", ok, "done")
             /\ es' = IF ok THEN indices_create(es, initial_index_name) ELSE es
    /\ UNCHANGED <<ev, gen, clock, saves>>

\* _ensure_write_index_exists, the creation of {prefix}-000001 bound as the
\* write index; a failure is logged and re-raised
CreateInitialIndex(r) ==
    /\ run[r].pc = "create"
    /\ \E transient \in BOOLEAN :
         LET ok == ~transient /\ initial_index_name \notin es.indices
         IN  /\ run' = Issue(r, "indices_create", ok, IF ok THEN "done" ELSE "failed")
             /\ es' = IF ok THEN indices_create(es, initial_index_name) ELSE es
    /\ UNCHANGED <<ev, gen, clock, saves>>

\* Another client of the store creates an index under the template's pattern.
OtherIndexCreated ==
    /\ \E n \in IndexNames :
         /\ n \notin es.indices
         /\ es' = template_create(es, n)
    /\ UNCHANGED <<run, ev, gen, clock, saves>>

InitBoot ==
    /\ es = FreshStore
    /\ run = [r \in Runs |-> IdleRun]
    /\ ev = [e \in Events |-> NewEvent]
    /\ gen = NewGenerator(1)
    /\ clock = 1
    /\ saves = <<>>

NextBoot ==
    \/ \E r \in Runs : Start(r)
    \/ \E r \in Runs : Ping(r)
    \/ \E r \in Runs : PutPolicy(r)
    \/ \E r \in Runs : PutTemplate(r)
    \/ \E r \in Runs : LookupAlias(r)
    \/ \E r \in Runs : CreateInitialIndex(r)
    \/ OtherIndexCreated

SpecBoot == InitBoot /\ [][NextBoot]_vars

(***************************************************************************)
(* The store's part in a document write: es.create(index=alias, id,        *)
(* document, require_alias=True) is create-only.                           *)
(***************************************************************************)
DocIds(s) == {d.id : d \in s.docs}

\* The indices a write through the alias goes to: its write index, or the
\* one index it is bound to when none is marked.
write_target(s) ==
    IF s.write # {} THEN s.write
    ELSE IF Cardinality(s.aliases) = 1 THEN s.aliases
    ELSE {}

\* (variant: the write is an index operation, which replaces a stored document)
es_create_upsert(s, id, document, transient) ==
    IF transient THEN [store |-> s, response |-> Raised("transport")]
    ELSE IF write_target(s) = {} THEN [store |-> s, response |-> Raised("no write index")]
    ELSE IF id \in DocIds(s)
    THEN [store |-> [s EXCEPT !.docs = {d \in @ : d.id # id}
                                         \cup {[id |-> id, document |-> document]}],
          response |-> Returned("updated")]
    ELSE [store |-> [s EXCEPT !.docs = @ \cup {[id |-> id, document |-> document]}],
          response |-> Returned("created")]

es_create(s, id, document, transient) ==
    IF transient THEN [store |-> s, response |-> Raised("transport")]
    ELSE IF write_target(s) = {} THEN [store |-> s, response |-> Raised("no write index")]
    ELSE IF id \in DocIds(s) THEN [store |-> s, response |-> Raised("conflict")]
    ELSE [store |-> [s EXCEPT !.docs = @ \cup {[id |-> id, document |-> document]}],
          response |-> Returned("created")]

\* what the client may hand back to save_message
Responses ==
    {Raised("transport"), Raised("conflict"), Returned("created"),
     Returned("updated"), Returned("noop"), Returned("None")}

\* (variant: only "created" is taken for success)
save_message_strict(response) ==
    IF response.raised THEN "raised"
    ELSE IF ~(response.val \in {"created"}) THEN "raised"
    ELSE "returned"

\* save_message after the await: response.get("result") in ["created", "updated"]
save_message(response) ==
    IF response.raised THEN "raised"
    ELSE IF ~(response.val \in {"created", "updated"}) THEN "raised"
    ELSE "returned"

(***************************************************************************)
(* _parse_message_chain on the record of one event.                        *)
(***************************************************************************)
\* an exception leaves the handler: nothing of the event is kept
Failed(rec, err) == [NewEvent EXCEPT !.pc = "failed", !.err = err, !.group = rec.group]


\* one turn of a loop of the parser
parse_turn(rec) ==
    LET st == rec.stack
        f == st[Len(st)]
    IN  IF f.i > Len(f.seq)
        THEN IF Len(st) = 1
             THEN \* the outermost call returns elements
                  [rec EXCEPT !.pc = "save", !.out = f.out, !.stack = <<>>]
             ELSE LET p == st[Len(st) - 1]
                      element == IF f.tag = "nodes" THEN NodesElement(f.out)
                                 ELSE IF p.tag = "nodes" THEN f.out
                                 ELSE NodeElement(f.out)
                  IN  [rec EXCEPT !.stack = SetTop(Pop(st), Emit(p, element))]
        ELSE LET comp == f.seq[f.i] IN
             IF f.tag = "nodes"
             THEN [rec EXCEPT !.stack = Append(st, Frame("chain", comp))]
             ELSE IF ~is_type_parseable(comp)
             THEN [rec EXCEPT !.stack = SetTop(st, [f EXCEPT !.i = @ + 1])]
             ELSE IF comp.type = "Node"
             THEN [rec EXCEPT !.stack = Append(st, Frame("chain", comp.kids[1]))]
             ELSE IF comp.type = "Nodes"
             THEN [rec EXCEPT !.stack = Append(st, Frame("nodes", comp.kids))]
             ELSE IF get_download_url_by_type(comp) # "none"
                     /\ get_download_url_by_type(comp) = "http"
             THEN [rec EXCEPT !.pc = "probe", !.probed = Append(@, Invoked(comp))]
             ELSE [rec EXCEPT !.stack = SetTop(st, Emit(f, to_dict(comp, "None")))]

RECURSIVE parse_run(_)
\* the parser from where it stands to its next await, its return or its raise
\* (t is the record after one turn, computed once)
parse_run(rec) ==
    IF rec.pc = "parse"
    THEN CHOOSE r \in {parse_run(t) : t \in {parse_turn(rec)}} : TRUE
    ELSE rec

\* the call _parse_message_chain(chain)
parse_message_chain(rec, chain) ==
    parse_run([rec EXCEPT !.pc = "parse", !.chain = chain,
                          !.stack = <<Frame("chain", chain)>>])

\* (variant: the content is resolved whatever the size gate answered)
after_probe_always(rec, probe) ==
    LET st == rec.stack
        f == st[Len(st)]
        comp == f.seq[f.i]
        ret == is_regular_file(probe)
        ok == IF ~ret.raised /\ ret.val.is_regular THEN "yes" ELSE "no"
        seen == [rec EXCEPT !.gate = [probe |-> probe, ret |-> ret],
                            !.probed[Len(rec.probed)].ok = ok]
    IN  IF ret.raised THEN Failed(seen, "size gate")
        ELSE [seen EXCEPT !.pc = "resolve", !.resolved = Append(@, comp)]

\* await _is_regular_file(url) returns: a refused file is emitted with its
\* warning, an accepted one goes on to get_file / convert_to_file_path
after_probe(rec, probe) ==
    LET st == rec.stack
        f == st[Len(st)]
        comp == f.seq[f.i]
        ret == is_regular_file(probe)
        ok == IF ~ret.raised /\ ret.val.is_regular THEN "yes" ELSE "no"
        seen == [rec EXCEPT !.gate = [probe |-> probe, ret |-> ret],
                            !.probed[Len(rec.probed)].ok = ok]
    IN  IF ret.raised THEN Failed(seen, "size gate")
        ELSE IF ret.val.is_regular
        THEN [seen EXCEPT !.pc = "resolve", !.resolved = Append(@, comp)]
        ELSE parse_run([seen EXCEPT
                 !.pc = "parse",
                 !.stack = SetTop(st, Emit(f, to_dict(comp, ret.val.check_result)))])

\* await comp.get_file() / comp.convert_to_file_path() returns or raises
after_resolve(rec, ok) ==
    LET st == rec.stack
        f == st[Len(st)]
        comp == f.seq[f.i]
    IN  IF ok
        THEN parse_run([rec EXCEPT
                 !.pc = "parse",
                 !.stack = SetTop(st, Emit(f, to_dict(comp, "None")))])
        ELSE Failed(rec, IF comp.type = "File" THEN "get_file"
                         ELSE "convert_to_file_path")

(***************************************************************************)
(* on_group_message, one step per stretch between suspension points.       *)
(***************************************************************************)
\* the plugin whose events are followed is the one of the first start
plugin == CHOOSE r \in Runs : \A q \in Runs : r <= q

\* (variant: the list of elements is one list shared by the events)
Document_shared(rec) == [group_id |-> rec.group, message_extra |-> ev[plugin].out]

Document(rec) == [group_id |-> rec.group, message_extra |-> rec.out]

\* (variant: the identifier is taken when the handler first goes on, and
\* held until the write)
Proceed_idFirst(e, reached) ==
    \E rec \in {reached} :
      IF rec.id = NoneId /\ rec.pc \in {"sender", "probe", "resolve", "save"}
      THEN \E now \in clock..MaxClock :
             LET n == Snowflake_next(gen, now) IN
               /\ clock' = now
               /\ gen' = n.gen
               /\ IF rec.pc = "save"
                  THEN /\ saves' = Append(saves, [event |-> e, id |-> n.id,
                                                  group |-> rec.group,
                                                  bootstrapped |-> run[plugin].pc = "done"])
                       /\ ev' = [ev EXCEPT ![e] = [rec EXCEPT !.pc = "create", !.id = n.id,
                                                              !.gate = NoGate]]
                  ELSE /\ saves' = saves
                       /\ ev' = [ev EXCEPT ![e] = [rec EXCEPT !.id = n.id]]
      ELSE IF rec.pc = "save"
      THEN /\ saves' = Append(saves, [event |-> e, id |-> rec.id, group |-> rec.group,
                                      bootstrapped |-> run[plugin].pc = "done"])
           /\ ev' = [ev EXCEPT ![e] = [rec EXCEPT !.pc = "create", !.gate = NoGate]]
           /\ UNCHANGED <<gen, clock>>
      ELSE /\ ev' = [ev EXCEPT ![e] = rec]
           /\ UNCHANGED <<gen, saves, clock>>

\* (variant: the write is issued as soon as the parse is suspended)
Proceed_early(e, rec) ==
    IF rec.pc \in {"save", "probe"}
    THEN \E now \in clock..MaxClock :
           LET n == Snowflake_next(gen, now) IN
             /\ clock' = now
             /\ gen' = n.gen
             /\ saves' = Append(saves, [event |-> e, id |-> n.id, group |-> rec.group,
                                        bootstrapped |-> run[plugin].pc = "done"])
             /\ ev' = [ev EXCEPT ![e] = IF n.id = NoneId
                                        THEN Failed(rec, "ValueError")
                                        ELSE [rec EXCEPT !.pc = "create", !.id = n.id,
                                                         !.gate = NoGate]]
    ELSE /\ ev' = [ev EXCEPT ![e] = rec]
         /\ UNCHANGED <<gen, saves, clock>>

\* The handler goes on with `rec`: when the parse has returned it calls
\* self.helper.save_message(next(self.id_generator), es_document), up to the
\* await of es.create (a None identifier is refused by the client).  The
\* generator reads the clock, which has moved on by any number of
\* milliseconds since it was last read.
Proceed(e, reached) ==
    \E rec \in {reached} :
      IF rec.pc = "save"
      THEN \E now \in clock..MaxClock :
             LET n == Snowflake_next(gen, now) IN
               /\ clock' = now
               /\ gen' = n.gen
               /\ saves' = Append(saves, [event |-> e, id |-> n.id, group |-> rec.group,
                                          bootstrapped |-> run[plugin].pc = "done"])
               /\ ev' = [ev EXCEPT ![e] = IF n.id = NoneId
                                          THEN Failed(rec, "ValueError")
                                          ELSE [rec EXCEPT !.pc = "create", !.id = n.id,
                                                           !.gate = NoGate]]
      ELSE /\ ev' = [ev EXCEPT ![e] = rec]
           /\ UNCHANGED <<gen, saves, clock>>

\* (variant: the handler does not consult the enablement set)
OnGroupMessage_ungated(e) ==
    /\ ev[e].pc = "new"
    /\ run[plugin].pc # "idle"
    /\ \A d \in Events : d < e => ev[d].pc # "new"
    /\ \E g \in Groups, sender_in_raw \in BOOLEAN, chain \in EventChains :
         LET rec == [NewEvent EXCEPT !.group = g] IN
         IF ~run[plugin].helper
         THEN Proceed(e, Failed(rec, "AttributeError"))
         ELSE IF ~sender_in_raw
         THEN Proceed(e, [rec EXCEPT !.pc = "sender"])
         ELSE Proceed(e, parse_message_chain(rec, chain))
    /\ UNCHANGED <<es, run>>

\* the host delivers a group message (events are numbered in the order of
\* their delivery): self.helper, is_enabled_group, the sender, and the
\* document up to the first await
OnGroupMessage(e) ==
    /\ ev[e].pc = "new"
    /\ run[plugin].pc # "idle"
    /\ \A d \in Events : d < e => ev[d].pc # "new"
    /\ \E g \in Groups, sender_in_raw \in BOOLEAN, chain \in EventChains :
         LET rec == [NewEvent EXCEPT !.group = g] IN
         IF ~run[plugin].helper
         THEN Proceed(e, Failed(rec, "AttributeError"))
         ELSE IF ~is_enabled_group(g)
         THEN Proceed(e, [rec EXCEPT !.pc = "returned"])
         ELSE IF ~sender_in_raw
         THEN Proceed(e, [rec EXCEPT !.pc = "sender"])
         ELSE Proceed(e, parse_message_chain(rec, chain))
    /\ UNCHANGED <<es, run>>

\* await event.bot.get_group_member_info(...) returns or raises
SenderReturns(e) ==
    /\ ev[e].pc = "sender"
    /\ \E ok \in BOOLEAN, chain \in EventChains :
         IF ok
         THEN Proceed(e, parse_message_chain(ev[e], chain))
         ELSE Proceed(e, Failed(ev[e], "get_group_member_info"))
    /\ UNCHANGED <<es, run>>

\* (variant: a probe that fails is made again)
ProbeReturns_reprobe(e) ==
    /\ ev[e].pc = "probe"
    /\ \E probe \in Probes :
         IF get_http_content_length(probe).raised
         THEN /\ ev' = [ev EXCEPT ![e].gate = [probe |-> probe,
                                               ret |-> is_regular_file(probe)]]
              /\ UNCHANGED <<gen, saves, clock>>
         ELSE Proceed(e, after_probe(ev[e], probe))
    /\ UNCHANGED <<es, run>>

\* await _is_regular_file(url) returns to the parse of the event
ProbeReturns(e) ==
    /\ ev[e].pc = "probe"
    /\ \E probe \in Probes : Proceed(e, after_probe(ev[e], probe))
    /\ UNCHANGED <<es, run>>

ResolveReturns(e) ==
    /\ ev[e].pc = "resolve"
    /\ \E ok \in BOOLEAN : Proceed(e, after_resolve(ev[e], ok))
    /\ UNCHANGED <<es, run>>

\* the rest of save_message once es.create has answered
Answered(rec, response) ==
    IF save_message(response) = "returned"
    THEN [rec EXCEPT !.resp = response, !.pc = "done"]
    ELSE [Failed(rec, "save_message") EXCEPT !.resp = response, !.id = rec.id]

\* (variant: a failed write is tried again under a new identifier)
CreateReturns_retry(e) ==
    /\ ev[e].pc = "create"
    /\ \E transient \in BOOLEAN :
         LET r == es_create(es, ev[e].id, Document(ev[e]), transient) IN
           /\ es' = r.store
           /\ IF save_message(r.response) = "returned"
              THEN /\ ev' = [ev EXCEPT ![e] = Answered(ev[e], r.response)]
                   /\ UNCHANGED <<gen, clock, saves>>
              ELSE Proceed(e, [ev[e] EXCEPT !.pc = "save"])
    /\ UNCHANGED run

\* the store serves the create call and save_message looks at the answer
CreateReturns(e) ==
    /\ ev[e].pc = "create"
    /\ \E transient \in BOOLEAN :
         LET r == es_create(es, ev[e].id, Document(ev[e]), transient) IN
           /\ es' = r.store
           /\ ev' = [ev EXCEPT ![e] = Answered(ev[e], r.response)]
    /\ UNCHANGED <<run, gen, clock, saves>>

\* a plugin whose initialize has returned (the alias was found)
ReadyRun ==
    [pc |-> "done", helper |-> TRUE, afterOk |-> FALSE,
     calls |-> <<Call("ping", TRUE), Call("put_lifecycle", TRUE),
                 Call("put_index_template", TRUE), Call("get_alias", TRUE)>>]

BootstrappedStore ==
    indices_create(
        put_index_template(put_lifecycle(FreshStore, ilm_policy_name), index_template_name),
        initial_index_name)

Init ==
    /\ es = FreshStore
    /\ run = [r \in Runs |-> IdleRun]
    /\ ev = [e \in Events |-> NewEvent]
    /\ gen = NewGenerator(1)
    /\ clock = 1
    /\ saves = <<>>

Next ==
    \/ Start(plugin)
    \/ Ping(plugin)
    \/ PutPolicy(plugin)
    \/ PutTemplate(plugin)
    \/ LookupAlias(plugin)
    \/ CreateInitialIndex(plugin)
    \/ \E e \in Events : OnGroupMessage(e)
    \/ \E e \in Events : SenderReturns(e)
    \/ \E e \in Events : ProbeReturns(e)
    \/ \E e \in Events : ResolveReturns(e)
    \/ \E e \in Events : CreateReturns(e)

Spec == Init /\ [][Next]_vars

(***************************************************************************)
(* The handler of a plugin whose initialize has returned, with every       *)
(* awaited call (sender lookup, size probe, content resolution, document   *)
(* write) returning or raising in the end: the probe has a timeout of its  *)
(* own, the store client a request timeout.  The events are handled within *)
(* one millisecond of the clock.                                           *)
(***************************************************************************)
InitLive ==
    /\ es = BootstrappedStore
    /\ run = [r \in Runs |-> IF r = plugin THEN ReadyRun ELSE IdleRun]
    /\ ev = [e \in Events |-> NewEvent]
    /\ gen = NewGenerator(MaxClock)
    /\ clock = MaxClock
    /\ saves = <<>>

NextLive ==
    \/ \E e \in Events : OnGroupMessage(e)
    \/ \E e \in Events : SenderReturns(e)
    \/ \E e \in Events : ProbeReturns(e)
    \/ \E e \in Events : ResolveReturns(e)
    \/ \E e \in Events : CreateReturns(e)

\* the call the handler of the event is awaiting returns or raises
Returns(e) ==
    \/ SenderReturns(e)
    \/ ProbeReturns(e)
    \/ ResolveReturns(e)
    \/ CreateReturns(e)

SpecLive ==
    /\ InitLive
    /\ [][NextLive]_vars
    /\ \A e \in Events : WF_vars(Returns(e))

(***************************************************************************)
(* The parser alone, on every chain of ParseChains.                        *)
(***************************************************************************)
ParserProbeReturns(e) ==
    /\ ev[e].pc = "probe"
    /\ \E probe \in Probes : ev' = [ev EXCEPT ![e] = after_probe(ev[e], probe)]
    /\ UNCHANGED <<es, run, gen, clock, saves>>

ParserResolveReturns(e) ==
    /\ ev[e].pc = "resolve"
    /\ \E ok \in BOOLEAN : ev' = [ev EXCEPT ![e] = after_resolve(ev[e], ok)]
    /\ UNCHANGED <<es, run, gen, clock, saves>>

InitParse ==
    /\ es = BootstrappedStore
    /\ run = [r \in Runs |-> IF r = plugin THEN ReadyRun ELSE IdleRun]
    /\ \E chain \in ParseChains :
         ev = [e \in Events |->
                 IF e = plugin
                 THEN parse_message_chain([NewEvent EXCEPT !.group = "1001"], chain)
                 ELSE NewEvent]
    /\ gen = NewGenerator(1)
    /\ clock = 1
    /\ saves = <<>>

NextParse ==
    \/ \E e \in Events : ParserProbeReturns(e)
    \/ \E e \in Events : ParserResolveReturns(e)

SpecParse == InitParse /\ [][NextParse]_vars

(***************************************************************************)
(* save_message alone, under every answer of the client.                   *)
(***************************************************************************)
\* the parse has returned: the handler calls save_message
SaveMessage(e) ==
    /\ ev[e].pc = "save"
    /\ Proceed(e, ev[e])
    /\ UNCHANGED <<es, run>>

\* save_message gets an answer of any shape the client can return
AnswerReturns(e) ==
    /\ ev[e].pc = "create"
    /\ \E response \in Responses : ev' = [ev EXCEPT ![e] = Answered(ev[e], response)]
    /\ UNCHANGED <<es, run, gen, clock, saves>>

InitSave ==
    /\ es = BootstrappedStore
    /\ run = [r \in Runs |-> IF r = plugin THEN ReadyRun ELSE IdleRun]
    /\ \E chains \in [Events -> InnerChains] :
         /\ ev = [e \in Events |->
                   parse_message_chain([NewEvent EXCEPT !.group = "1001"], chains[e])]
         /\ \A e \in Events : ev[e].pc = "save"
    /\ gen = NewGenerator(1)
    /\ clock = 1
    /\ saves = <<>>

NextSave ==
    \/ \E e \in Events : SaveMessage(e)
    \/ \E e \in Events : AnswerReturns(e)

SpecSave == InitSave /\ [][NextSave]_vars

(***************************************************************************)
(* save_message called with identifiers of the caller's choice, against    *)
(* the store.                                                              *)
(***************************************************************************)
\* the identifiers handed to save_message
WriteIds == {SnowflakeId(NewGenerator(t)) : t \in 1..MaxClock}

\* save_message(doc_id, doc_body), up to the await of es.create
CallSaveMessage(e) ==
    /\ ev[e].pc = "save"
    /\ \E doc_id \in WriteIds :
         /\ ev' = [ev EXCEPT ![e].pc = "create", ![e].id = doc_id]
         /\ saves' = Append(saves, [event |-> e, id |-> doc_id, group |-> ev[e].group,
                                    bootstrapped |-> run[plugin].pc = "done"])
    /\ UNCHANGED <<es, run, gen, clock>>

NextWrite ==
    \/ \E e \in Events : CallSaveMessage(e)
    \/ \E e \in Events : CreateReturns(e)

SpecWrite == InitSave /\ [][NextWrite]_vars

(***************************************************************************)
(* Properties of the bootstrap.                                            *)
(***************************************************************************)
BootOrder ==
    <<"ping", "put_lifecycle", "put_index_template", "get_alias", "indices_create">>

Fatal == {"ping", "put_lifecycle", "put_index_template", "indices_create"}

Issued(r, op) == \E i \in 1..Len(run[r].calls) : run[r].calls[i].op = op

LookupsOk(c) == \A i \in 1..Len(c) : c[i].op # "indices_create" => c[i].ok

NoCreation(c) == \A i \in 1..Len(c) : c[i].op # "indices_create"

C5_AtMostOneWriteIndex ==
    /\ es.write \subseteq es.aliases
    /\ Cardinality(es.write) <= 1

\* the write index exists and a later start, its lookup having failed, tried
\* to create it again
C5_Witness ==
    /\ es.write # {}
    /\ \E r \in Runs : run[r].pc = "failed" /\ Issued(r, "indices_create")

\* C13 (as claimed): at the step at which a bootstrap returns without
\* raising, the write alias resolves to an index that is its write target,
\* whatever the store looked like when the bootstrap began.
C13_ReturnImpliesWriteTarget ==
    [][\A r \in Runs :
          (run[r].pc # "done" /\ run'[r].pc = "done") => write_target(es') # {}]_vars

\* the starts whose index creation was served with the given outcome
Creations(ok) ==
    {r \in Runs : \E i \in 1..Len(run[r].calls) :
                     run[r].calls[i] = Call("indices_create", ok)}

SavesOf(e) == {i \in 1..Len(saves) : saves[i].event = e}

\* C1: an event whose group is not in the enablement set never comes to a
\* save_message call: the handler has returned (or failed on the missing
\* helper) without one.
C1_NoWriteForDisabledGroup ==
    /\ \A i \in 1..Len(saves) : is_enabled_group(saves[i].group)
    /\ \A e \in Events :
         (ev[e].pc # "new" /\ ~is_enabled_group(ev[e].group)) =>
             (SavesOf(e) = {} /\ ev[e].pc \in {"returned", "failed"})

\* an event of a group outside the set has returned while the plugin writes
\* for another event
C1_Witness ==
    /\ \E e \in Events : ev[e].pc = "returned" /\ ev[e].group = "2002"
    /\ Len(saves) > 0

\* C2 (as claimed): every save_message call is made after the bootstrap of
\* the plugin has completed successfully.
C2_NoWriteBeforeBootstrap ==
    \A i \in 1..Len(saves) : saves[i].bootstrapped

\* C6 (as claimed): save_message returns normally exactly when the answer
\* of the store has the result "created", and raises for every other answer.
C6_RaisesUnlessCreated ==
    \A e \in Events :
        ev[e].resp # NoResponse =>
            (ev[e].pc = "done" <=> ev[e].resp = Returned("created"))

RECURSIVE Warnings(_)
\* the warn fields of the leaf elements of a parsed chain
Warnings(elements) ==
    UNION {LET el == elements[i] IN
           IF el.kids = <<>> THEN {el.warn}
           ELSE UNION {Warnings(el.kids[k]) : k \in 1..Len(el.kids)}
           : i \in 1..Len(elements)}

\* the warn fields of everything the parse of an event has emitted so far
Emitted(rec) ==
    Warnings(rec.out) \cup
    UNION {LET f == rec.stack[k] IN
           IF f.tag = "chain" THEN Warnings(f.out)
           ELSE UNION {Warnings(f.out[j]) : j \in 1..Len(f.out)}
           : k \in 1..Len(rec.stack)}

\* C7 (as claimed): no soft failure of an attachment leaves the parser as an
\* exception, and an element the size gate refused is emitted with the
\* reason in its warn field.
C7_SoftFailuresStayInline ==
    \A e \in Events :
        /\ ev[e].pc # "failed"
        /\ (ev[e].gate # NoGate /\ ~ev[e].gate.ret.val.is_regular) =>
              /\ ev[e].gate.ret.val.check_result # "None"
              /\ ev[e].gate.ret.val.check_result \in Emitted(ev[e])

\* C8: the size gate never raises; it answers (true, no reason) for a 200
\* with a content length of at most 50 MiB, (false, size reason) for a 200
\* with a larger one, and (false, error reason) for a network error, a
\* timeout or a status other than 200.
C8_SizeGate ==
    \A e \in Events :
        LET probe == ev[e].gate.probe
            ret == ev[e].gate.ret
            ok200 == probe.kind = "response" /\ probe.status = 200
        IN  ev[e].gate # NoGate =>
              /\ ~ret.raised
              /\ (ok200 /\ probe.length # NoHeader /\ probe.length <= 52428800) =>
                    ret.val = [is_regular |-> TRUE, check_result |-> "None"]
              /\ (ok200 /\ probe.length > 52428800) =>
                    ret.val = [is_regular |-> FALSE, check_result |-> "file larger than 50MB"]
              /\ ~ok200 =>
                    /\ ~ret.val.is_regular
                    /\ ret.val.check_result \in
                         {"size probe failed: network", "size probe failed: timeout",
                          "size probe failed: status"}

\* the gate has accepted a file of exactly 50 MiB
C8_Witness ==
    \E e \in Events :
        /\ ev[e].gate.probe = Response(200, 52428800)
        /\ ev[e].gate.ret.val.is_regular
        /\ ev[e].pc = "resolve"

RECURSIVE Expected(_)
\* the supported components of a chain, in order, each with its groups
Expected(chain) ==
    LET kept == SelectSeq(chain, LAMBDA c :
                    c.type \in {"File", "Video", "Record", "Image", "Node", "Nodes",
                                "At", "AtAll", "Reply", "Plain", "Share", "Contact",
                                "Location", "Music", "Json", "Forward"})
    IN  [i \in 1..Len(kept) |->
           [type |-> kept[i].type, file |-> kept[i].file, url |-> kept[i].url,
            kids |-> [k \in 1..Len(kept[i].kids) |-> Expected(kept[i].kids[k])]]]

RECURSIVE Shape(_)
\* a parsed chain without its warnings
Shape(elements) ==
    [i \in 1..Len(elements) |->
       [type |-> elements[i].type, file |-> elements[i].file, url |-> elements[i].url,
        kids |-> [k \in 1..Len(elements[i].kids) |-> Shape(elements[i].kids[k])]]]

\* what _parse_message_chain returns, when it returns, is at every level the
\* supported components of its input in the input's order
ParseResultInOrder ==
    \A e \in Events :
        ev[e].pc = "save" => Shape(ev[e].out) = Expected(ev[e].chain)

\* C9 (as claimed): for every chain _parse_message_chain returns, and what
\* it returns is, at every level, the supported components of its input in
\* the input's order, one element each, the unsupported ones left out; a
\* Node yields one element holding its parsed content.
C9_ReturnsSupportedInOrder ==
    \A e \in Events :
        ev[e].pc \in {"save", "failed"} =>
            /\ ev[e].pc = "save"
            /\ Shape(ev[e].out) = Expected(ev[e].chain)

\* C10: the identifiers passed to save_message are integers greater than 0
\* and strictly increasing in the order of the calls, so no two calls carry
\* the same one.
C10_IdsPositiveIncreasing ==
    \A i \in 1..Len(saves) :
        /\ saves[i].id > 0
        /\ \A j \in 1..(i - 1) : saves[j].id < saves[i].id

\* two handlers took their identifiers within the same millisecond
C10_Witness ==
    /\ Len(saves) >= 2
    /\ saves[2].id = saves[1].id + 1
    /\ saves[1].event # saves[2].event

(***************************************************************************)
(* Properties of the writes.                                               *)
(***************************************************************************)
\* the save_message calls that have ended, with the identifier they carried
Ended(e) == ev[e].resp # NoResponse

\* C11: of the save_message calls made with one identifier at most one
\* returns, and every other one ends raising to its caller; the store holds
\* one document under the identifier, with the body of the call that
\* returned, which no later call with the identifier changes.
C11_DuplicateIdStoredOnce ==
    /\ \A d1 \in es.docs : \A d2 \in es.docs : d1.id = d2.id => d1 = d2
    /\ \A d \in es.docs :
         \E e \in Events :
            /\ ev[e].pc = "done" /\ ev[e].id = d.id /\ Document(ev[e]) = d.document
            /\ \A o \in Events : (o # e /\ Ended(o) /\ ev[o].id = d.id) =>
                                     (ev[o].pc = "failed" /\ ev[o].resp.raised)
    /\ \A e \in Events : Ended(e) => (ev[e].pc = "done" <=> ev[e].resp = Returned("created"))

\* two calls with one identifier and different bodies: the first is stored,
\* the second was refused by the store
C11_Witness ==
    \E e \in Events : \E o \in Events :
        /\ ev[e].pc = "done" /\ ev[o].pc = "failed"
        /\ ev[o].id = ev[e].id
        /\ ev[o].resp = Raised("conflict")
        /\ es.docs = {[id |-> ev[e].id, document |-> Document(ev[e])]}
        /\ ev[e].out # <<>>

\* the documents stored under the identifier of an event
DocsOf(e) == {d \in es.docs : d.id = ev[e].id}

\* an event dropped by an exception of its parse or by a failure of its write
Dropped(e) ==
    /\ ev[e].pc = "failed"
    /\ ev[e].err \in {"get_file", "convert_to_file_path", "save_message"}

\* C12: whatever has happened to the other events, an event whose handler
\* has returned (its parse and its write succeeded) has exactly one stored
\* document, under an identifier of its own, holding its own group and its
\* own parsed elements; an event dropped by a failure has changed none of it.
C12_FailuresIsolated ==
    \A e \in Events :
        ev[e].pc = "done" =>
            /\ DocsOf(e) = {[id |-> ev[e].id,
                             document |-> [group_id |-> ev[e].group,
                                           message_extra |-> ev[e].out]]}
            /\ \A o \in Events : (o # e /\ ev[o].id # NoneId) => ev[o].id # ev[e].id

\* an event with a forwarded image is stored although an earlier event was
\* dropped by a failure
C12_Witness ==
    \E e \in Events : \E o \in Events :
        /\ o < e
        /\ Dropped(o)
        /\ ev[e].pc = "done"
        /\ Len(ev[e].out) = 1
        /\ Cardinality(DocsOf(e)) = 1

\* C15: an event for which save_message has been called has no activation
\* of its parse left and no probe or resolution outstanding, and the
\* elements it is written with are the whole parse of its chain; an event
\* still in its parse has made no save_message call.
C15_CreateAfterWholeParse ==
    \A e \in Events :
        /\ SavesOf(e) # {} =>
              /\ ev[e].pc \in {"create", "done", "failed"}
              /\ ev[e].stack = <<>>
        /\ ev[e].pc \in {"create", "done"} =>
              /\ SavesOf(e) # {}
              /\ Shape(ev[e].out) = Expected(ev[e].chain)
        /\ ev[e].pc \in {"sender", "probe", "resolve"} => SavesOf(e) = {}

\* the create call of an event whose forwarded image was probed and resolved
C15_Witness ==
    \E e \in Events :
        /\ ev[e].pc = "create"
        /\ Len(ev[e].out) = 1
        /\ ev[e].out[1].type = "Node"
        /\ ev[e].out[1].kids[1][1] = to_dict(ImageHttp, "None")

\* C16: for each event at most one save_message call is made, so at most
\* one identifier is taken from the generator and at most one create call is
\* issued for it; an event whose write failed has ended with the error and
\* is left with that one call.
C16_OneCreatePerEvent ==
    /\ \A e \in Events : Cardinality(SavesOf(e)) <= 1
    /\ \A e \in Events :
         (Ended(e) /\ ev[e].pc = "failed") =>
             /\ ev[e].err = "save_message"
             /\ Cardinality(SavesOf(e)) = 1
             /\ \A i \in SavesOf(e) : saves[i].id = ev[e].id

\* the write of an event was refused by the store for want of a write index
C16_Witness ==
    \E e \in Events :
        /\ ev[e].pc = "failed"
        /\ ev[e].resp = Raised("no write index")
        /\ Cardinality(SavesOf(e)) = 1

(***************************************************************************)
(* Properties of the size gate and the content resolution within a parse.  *)
(***************************************************************************)
\* the components of the gate invocations that came back positive
Accepted(rec) ==
    LET yes == SelectSeq(rec.probed, LAMBDA p : p.ok = "yes")
    IN  [i \in 1..Len(yes) |-> yes[i].comp]

\* the locator of a component begins with an HTTP(S) scheme
HasHttpLocator(c) ==
    \/ c.type = "Video" /\ c.file = "http"
    \/ c.type \in {"File", "Image"} /\ c.url = "http"
    \/ c.type = "Record" /\ (c.url = "http" \/ c.file = "http")

\* C17: the components whose content resolution was attempted are, in
\* order, those for which the size gate was invoked and came back positive:
\* none whose probe failed or whose size is over the limit, and none whose
\* locator is not an HTTP(S) one; a resolution under way is that of the
\* component the gate has just accepted.
C17_ResolveOnlyAfterPositiveGate ==
    \A e \in Events :
        LET rec == ev[e] IN
        /\ rec.resolved = Accepted(rec)
        /\ \A i \in 1..Len(rec.resolved) : HasHttpLocator(rec.resolved[i])
        /\ rec.pc = "resolve" =>
              LET f == rec.stack[Len(rec.stack)] IN
              /\ rec.probed[Len(rec.probed)] = [comp |-> f.seq[f.i], ok |-> "yes"]
              /\ rec.gate.ret.val.is_regular

\* a parse in which the gate refused the first attachment and accepted the
\* second, with a local image in between left alone
C17_Witness ==
    \E e \in Events :
        /\ ev[e].pc = "save"
        /\ Len(ev[e].probed) = 2
        /\ ev[e].probed[1].ok = "no"
        /\ ev[e].resolved = <<ev[e].probed[2].comp>>

RECURSIVE RemoteLeaves(_)
\* the leaves of a chain, in the order of the parse, that are of a supported
\* downloadable kind with an HTTP(S) locator
RemoteLeaves(chain) ==
    IF chain = <<>> THEN <<>>
    ELSE LET c == Head(chain)
             rest == RemoteLeaves(Tail(chain))
         IN  IF c.type = "Node" THEN RemoteLeaves(c.kids[1]) \o rest
             ELSE IF c.type = "Nodes"
             THEN IF c.kids = <<>> THEN rest
                  ELSE RemoteLeaves(c.kids[1])
                       \o RemoteLeaves(<<Nodes(Tail(c.kids))>>) \o rest
             ELSE IF is_type_downloadable(c) /\ HasHttpLocator(c) THEN <<c>> \o rest
             ELSE rest

\* C18 (as claimed): when a parse returns, the size gate has been invoked
\* exactly once, in the order of the parse, for every leaf of a downloadable
\* kind (image, video, record, file) whose locator is an HTTP(S) one.
C18_GateOncePerRemoteLeaf ==
    \A e \in Events :
        ev[e].pc = "save" =>
            [i \in 1..Len(ev[e].probed) |-> ev[e].probed[i].comp] = RemoteLeaves(ev[e].chain)

(***************************************************************************)
(* Termination of the handler.                                             *)
(***************************************************************************)
\* the handler of the event has ended: its document is stored, or it was
\* dropped with an error
Finished(e) ==
    \/ ev[e].pc = "done" /\ DocsOf(e) # {}
    \/ ev[e].pc = "failed" /\ ev[e].err # "None"

\* C19: every delivered event of an enabled group is finished in the end,
\* with its document stored or with an error, and at no point has its
\* parse invoked the size gate more often than its chain has leaves to
\* probe.
C19_EveryEventFinishes ==
    /\ [](\A e \in Events : Len(ev[e].probed) <= Len(RemoteLeaves(ev[e].chain)))
    /\ \A e \in Events :
         (ev[e].pc # "new" /\ is_enabled_group(ev[e].group)) ~> Finished(e)

\* an event with a forwarded image has ended with its document stored after
\* one probe
C19_Witness ==
    \E e \in Events :
        /\ ev[e].pc = "done"
        /\ Len(ev[e].probed) = 1
        /\ DocsOf(e) # {}

(***************************************************************************)
(* The order of the writes.                                                *)
(***************************************************************************)
\* C20: a handler that is still awaiting its sender, a probe or a
\* resolution holds no identifier; every identifier taken from the
\* generator has had its create call issued in the same step, so the last
\* identifier generated is that of the last call; and each call carries a
\* greater identifier than the call before it.
C20_CreatesInIdOrder ==
    /\ \A e \in Events :
         ev[e].pc \in {"sender", "probe", "resolve"} => ev[e].id = NoneId
    /\ \A e \in Events :
         ev[e].id # NoneId => \E i \in SavesOf(e) : saves[i].id = ev[e].id
    /\ saves # <<>> => saves[Len(saves)].id = SnowflakeId(gen)
    /\ \A i \in 1..(Len(saves) - 1) : saves[i].id < saves[i + 1].id

\* the event delivered second has issued its write before the event
\* delivered first, which was held up by its probe
C20_Witness ==
    /\ Len(saves) = 2
    /\ saves[1].event > saves[2].event
    /\ saves[1].id < saves[2].id
    /\ Len(ev[saves[2].event].probed) = 1

====
